---- MODULE Spec2Model ----
(***************************************************************************)
(* Election Management System (src/app.py): a Flask application whose      *)
(* handlers read and write MongoDB collections.  Each request slot is one  *)
(* client (with its own session cookie) whose request is served by one     *)
(* thread of the server; the steps of a handler are its database calls and *)
(* its clock reads, which interleave with those of the other slot.         *)
(*                                                                         *)
(* A collection is the sequence of its documents in insertion order.       *)
(* insert_one gives an elections or candidates document a fresh _id; a     *)
(* request names a document by the value of that _id.                      *)
(***************************************************************************)
EXTENDS Integers, Sequences, FiniteSets, TLC

\* ---------------------------------------------------------------- bounds
MaxTime == 3          \* the clock runs over 0..MaxTime
MaxElections == 1     \* elections ever created (their _ids are 1..MaxElections)
MaxCandidates == 2    \* candidate documents
MaxVoters == 2        \* voter documents
MaxVotes == 2         \* vote documents
MaxNotifications == 2 \* notification documents
MaxScheduled == 2     \* elections ever created in the scheduling workload

\* ------------------------------------------------------- program constants
MinAge == 18

\* the clients: each has its own session cookie, and the server serves the
\* requests of different clients on different threads
Req == {1, 2}

\* ------------------------------------------------------------ input values
\* a date of the request: the ISO string of time t, or a string that
\* datetime.fromisoformat rejects
IsoDate(t) == [iso |-> TRUE, t |-> t]
BadDate == [iso |-> FALSE, t |-> 0]
ScheduleInputs == { << IsoDate(1), IsoDate(2) >>, << IsoDate(1), IsoDate(1) >>,
                    << IsoDate(2), IsoDate(1) >>, << BadDate, IsoDate(2) >> }
NameInputs == {"X"}
PartyInputs == {"Y", "Z"}
CnicInputs == {"c1", "c2"}
DobInputs == {"d1"}
\* the age of the request: a number, or absent (data.get('age') is None)
Age(n) == [given |-> TRUE, n |-> n]
NoAge == [given |-> FALSE, n |-> 0]
AgeInputs == {Age(17), Age(18), NoAge}
ElectionIdInputs == 1..MaxElections
CandidateIdInputs == {1}
LoginInputs == { <<"admin_cnic", "1970-01-01">>, <<"c1", "d1">> }
RecipientInputs == {"admin", ""}
MessageInputs == {"m", ""}

VARIABLES
    admins,         \* mongo.db.admins
    voters,         \* mongo.db.voters
    candidates,     \* mongo.db.candidates
    elections,      \* mongo.db.elections
    votes,          \* mongo.db.votes
    notifications,  \* mongo.db.notifications
    nextElectionId, \* the _id insert_one gives the next election
    nextCandidateId,\* the _id insert_one gives the next candidate
    now,            \* datetime.now()
    session,        \* session[r]: the session cookie of client r
    pc,             \* pc[r]: where the request of slot r stands
    req,            \* req[r]: the request of slot r (route, request data, locals)
    resp            \* resp[r]: the response to the last request of slot r

vars == << admins, voters, candidates, elections, votes, notifications,
           nextElectionId, nextCandidateId, now, session, pc, req, resp >>

db == << admins, voters, candidates, elections, votes, notifications,
         nextElectionId, nextCandidateId >>

\* ---------------------------------------------------------------- helpers
\* collection.find(query): the documents that match, in natural order
Find(coll, Match(_)) == SelectSeq(coll, Match)

\* collection.find_one(query) found a document
Found(coll, Match(_)) == Find(coll, Match) # << >>

\* collection.find_one(query), when Found
FindOne(coll, Match(_)) == Head(Find(coll, Match))

\* collection.delete_one(query): the collection without its first match
DeleteOne(coll, Match(_)) ==
    IF ~Found(coll, Match) THEN coll
    ELSE LET i == CHOOSE k \in 1..Len(coll) :
                      Match(coll[k]) /\ \A j \in 1..(k - 1) : ~Match(coll[j])
         IN  SubSeq(coll, 1, i - 1) \o SubSeq(coll, i + 1, Len(coll))

\* format_response(success, message, data)
NoData == [py |-> "None"]
format_response(success, message, data) ==
    [kind |-> "json", success |-> success, message |-> message, data |-> data]

\* redirect(url_for('login_page'))
RedirectToLogin == [kind |-> "redirect", to |-> "login_page"]

\* an exception no handler catches: Flask answers 500
Crash(exception) == [kind |-> "error", exception |-> exception]

NoResponse == [kind |-> "none"]
Idle == [route |-> "idle"]

\* login_required: 'user' not in session
LoggedIn(r) == "user" \in DOMAIN session[r]

\* admin_required: 'user' not in session or session['user']['role'] != 'admin'
IsAdmin(r) == LoggedIn(r) /\ session[r].user.role = "admin"

\* the handler returns: the response is sent and the slot is free again
Return(r, response) ==
    /\ resp' = [resp EXCEPT ![r] = response]
    /\ pc' = [pc EXCEPT ![r] = "idle"]
    /\ req' = [req EXCEPT ![r] = Idle]

Goto(r, label) == pc' = [pc EXCEPT ![r] = label]

\* ------------------------------------------------------------------- Init
Init ==
    /\ admins = << >>
    /\ voters = << >>
    /\ candidates = << >>
    /\ elections = << >>
    /\ votes = << >>
    /\ notifications = << >>
    /\ nextElectionId = 1
    /\ nextCandidateId = 1
    /\ now = 0
    /\ session = [r \in Req |-> << >>]
    /\ pc = [r \in Req |-> "idle"]
    /\ req = [r \in Req |-> Idle]
    /\ resp = [r \in Req |-> NoResponse]

\* datetime.now() advances
Tick ==
    /\ now < MaxTime
    /\ now' = now + 1
    /\ UNCHANGED << db, session, pc, req, resp >>


\* ------------------------------------------------- the start of a request
\* the requests of a route that are being served
InFlight(routes) == Cardinality({q \in Req : req[q].route \in routes})

\* create_admin, the query: find_one({"cnic": "admin_cnic"})
IsBootstrapAdmin(a) == a.cnic = "admin_cnic"

\* create_admin, the document it inserts
BootstrapAdmin ==
    [admin_id |-> "admin", name |-> "Admin", cnic |-> "admin_cnic", dob |-> "1970-01-01"]

\* A request arrives at a free slot; before_request runs create_admin, whose
\* find_one is the first database call of every request.
Begin(r, request) ==
    /\ pc[r] = "idle"
    /\ req' = [req EXCEPT ![r] = request]
    /\ resp' = [resp EXCEPT ![r] = NoResponse]
    /\ IF Found(admins, IsBootstrapAdmin)
         THEN Goto(r, request.route)
         ELSE Goto(r, "create_admin_insert")
    /\ UNCHANGED << db, now, session >>

\* create_admin found no admin: insert_one, then the route's handler
create_admin_insert(r) ==
    /\ pc[r] = "create_admin_insert"
    /\ admins' = Append(admins, BootstrapAdmin)
    /\ Goto(r, req[r].route)
    /\ UNCHANGED << voters, candidates, elections, votes, notifications,
                    nextElectionId, nextCandidateId, now, session, req, resp >>

\* ------------------------------------------------------------ POST /login
login_request(r) ==
    \E c \in LoginInputs :
        Begin(r, [route |-> "login", cnic |-> c[1], dob |-> c[2]])

login(r) ==
    /\ pc[r] = "login"
    /\ LET cnic == req[r].cnic
           dob == req[r].dob
           Match(u) == u.cnic = cnic /\ u.dob = dob
       IN  IF Found(voters, Match)
             THEN LET user == FindOne(voters, Match)
                  IN  IF "voter_id" \in DOMAIN user
                        THEN /\ session' = [session EXCEPT ![r] =
                                    [user |-> [id |-> user.voter_id, role |-> "voter"]]]
                             /\ Return(r, format_response(TRUE, "Login successful",
                                                          [role |-> "voter"]))
                        ELSE \* user['voter_id'] raises KeyError
                             /\ Return(r, Crash("KeyError"))
                             /\ UNCHANGED session
             ELSE IF Found(admins, Match)
                    THEN LET admin == FindOne(admins, Match)
                         IN  /\ session' = [session EXCEPT ![r] =
                                    [user |-> [id |-> admin.admin_id, role |-> "admin"]]]
                             /\ Return(r, format_response(TRUE, "Login successful",
                                                          [role |-> "admin"]))
                    ELSE /\ Return(r, format_response(FALSE, "Invalid credentials", NoData))
                         /\ UNCHANGED session
    /\ UNCHANGED << db, now >>

\* --------------------------------------------------- POST /register_voter
register_voter_request(r) ==
    /\ Len(voters) + InFlight({"register_voter"}) < MaxVoters
    /\ \E name \in NameInputs, cnic \in CnicInputs, dob \in DobInputs, age \in AgeInputs :
        Begin(r, [route |-> "register_voter", name |-> name, cnic |-> cnic,
                  dob |-> dob, age |-> age])

\* int(age) < 18
Underage_inclusive(age) == age.n <= MinAge
Underage(age) == age.n < MinAge

\* admin_required, find_one({"cnic": cnic}), int(age) < 18
register_voter(r) ==
    /\ pc[r] = "register_voter"
    /\ LET cnic == req[r].cnic
           age == req[r].age
           Match(v) == v.cnic = cnic
       IN  IF ~IsAdmin(r) THEN Return(r, RedirectToLogin)
           ELSE IF Found(voters, Match)
             THEN Return(r, format_response(FALSE, "Voter already registered.", NoData))
           ELSE IF ~age.given
             THEN Return(r, Crash("TypeError"))   \* int(None)
           ELSE IF Underage(age)
             THEN Return(r, format_response(FALSE,
                            "Voter must be at least 18 years old.", NoData))
           ELSE Goto(r, "register_voter_insert") /\ UNCHANGED << req, resp >>
    /\ UNCHANGED << db, now, session >>

\* voters.insert_one
register_voter_insert(r) ==
    /\ pc[r] = "register_voter_insert"
    /\ voters' = Append(voters, [name |-> req[r].name, cnic |-> req[r].cnic,
                                 dob |-> req[r].dob, age |-> req[r].age,
                                 voted |-> FALSE])
    /\ Return(r, format_response(TRUE, "Voter registered successfully.", NoData))
    /\ UNCHANGED << admins, candidates, elections, votes, notifications,
                    nextElectionId, nextCandidateId, now, session >>

\* ---------------------------------------------------- POST /add_candidate
add_candidate_request(r) ==
    /\ Len(candidates) + InFlight({"add_candidate"}) < MaxCandidates
    /\ \E name \in NameInputs, party \in PartyInputs :
        Begin(r, [route |-> "add_candidate", name |-> name, party |-> party])

\* admin_required, find_one({"name": name, "party": party})
add_candidate(r) ==
    /\ pc[r] = "add_candidate"
    /\ LET name == req[r].name
           party == req[r].party
           Match(c) == c.name = name /\ c.party = party
       IN  IF ~IsAdmin(r) THEN Return(r, RedirectToLogin)
           ELSE IF Found(candidates, Match)
             THEN Return(r, format_response(FALSE, "Candidate already exists.", NoData))
           ELSE Goto(r, "add_candidate_insert") /\ UNCHANGED << req, resp >>
    /\ UNCHANGED << db, now, session >>

\* candidates.insert_one
add_candidate_insert(r) ==
    /\ pc[r] = "add_candidate_insert"
    /\ candidates' = Append(candidates, [_id |-> nextCandidateId,
                                         name |-> req[r].name, party |-> req[r].party])
    /\ nextCandidateId' = nextCandidateId + 1
    /\ Return(r, format_response(TRUE, "Candidate added successfully.", NoData))
    /\ UNCHANGED << admins, voters, elections, votes, notifications,
                    nextElectionId, now, session >>


\* -------------------------------------------------- POST /create_election
create_election_request(r) ==
    /\ nextElectionId + InFlight({"create_election"}) <= MaxElections
    /\ \E name \in NameInputs, schedule \in ScheduleInputs :
        Begin(r, [route |-> "create_election", name |-> name,
                  start_date |-> schedule[1], end_date |-> schedule[2]])

\* datetime.fromisoformat(s), for a string it accepts
fromisoformat(s) == s.t

\* start_date >= end_date
InvalidSchedule_strict(start_date, end_date) == start_date > end_date
InvalidSchedule(start_date, end_date) == start_date >= end_date

\* the tally create_election stores: "votes": {}
EmptyTally == << >>

\* admin_required, the two fromisoformat calls, the schedule check, insert_one
create_election(r) ==
    /\ pc[r] = "create_election"
    /\ IF ~IsAdmin(r)
         THEN Return(r, RedirectToLogin) /\ UNCHANGED << elections, nextElectionId >>
       ELSE IF ~req[r].start_date.iso \/ ~req[r].end_date.iso
         THEN \* fromisoformat raises ValueError
              Return(r, Crash("ValueError")) /\ UNCHANGED << elections, nextElectionId >>
       ELSE LET start_date == fromisoformat(req[r].start_date)
                end_date == fromisoformat(req[r].end_date)
            IN  IF InvalidSchedule(start_date, end_date)
                  THEN /\ Return(r, format_response(FALSE, "Invalid election schedule.",
                                                    NoData))
                       /\ UNCHANGED << elections, nextElectionId >>
                  ELSE /\ elections' = Append(elections,
                              [_id |-> nextElectionId, name |-> req[r].name,
                               start_date |-> start_date, end_date |-> end_date,
                               votes |-> EmptyTally])
                       /\ nextElectionId' = nextElectionId + 1
                       /\ Return(r, format_response(TRUE, "Election created successfully.",
                                                    NoData))
    /\ UNCHANGED << admins, voters, candidates, votes, notifications,
                    nextCandidateId, now, session >>

\* --------------------------------------- DELETE /delete_election/<election_id>
delete_election_request(r) ==
    \E election_id \in ElectionIdInputs :
        Begin(r, [route |-> "delete_election", election_id |-> election_id])

\* delete_election whose query lost its filter: delete_one({})
delete_election_unfiltered(r) ==
    /\ pc[r] = "delete_election"
    /\ LET Match(e) == e._id = req[r].election_id
       IN  IF ~IsAdmin(r)
             THEN Return(r, RedirectToLogin) /\ UNCHANGED elections
           ELSE /\ elections' = IF elections = << >> THEN << >> ELSE Tail(elections)
                /\ IF ~Found(elections, Match)
                     THEN Return(r, format_response(FALSE, "Election not found.", NoData))
                     ELSE Return(r, format_response(TRUE, "Election deleted successfully.",
                                                    NoData))
    /\ UNCHANGED << admins, voters, candidates, votes, notifications,
                    nextElectionId, nextCandidateId, now, session >>

\* delete_election that also deletes the election's votes (a cascade)
delete_election_cascade(r) ==
    /\ pc[r] = "delete_election"
    /\ LET Match(e) == e._id = req[r].election_id
           Kept(v) == v.election_id # req[r].election_id
       IN  IF ~IsAdmin(r)
             THEN Return(r, RedirectToLogin) /\ UNCHANGED << elections, votes >>
           ELSE /\ elections' = DeleteOne(elections, Match)
                /\ votes' = SelectSeq(votes, Kept)
                /\ IF ~Found(elections, Match)
                     THEN Return(r, format_response(FALSE, "Election not found.", NoData))
                     ELSE Return(r, format_response(TRUE, "Election deleted successfully.",
                                                    NoData))
    /\ UNCHANGED << admins, voters, candidates, notifications,
                    nextElectionId, nextCandidateId, now, session >>

\* admin_required, delete_one({"_id": election_id})
delete_election(r) ==
    /\ pc[r] = "delete_election"
    /\ LET Match(e) == e._id = req[r].election_id
       IN  IF ~IsAdmin(r)
             THEN Return(r, RedirectToLogin) /\ UNCHANGED elections
           ELSE /\ elections' = DeleteOne(elections, Match)
                /\ IF ~Found(elections, Match)      \* result.deleted_count == 0
                     THEN Return(r, format_response(FALSE, "Election not found.", NoData))
                     ELSE Return(r, format_response(TRUE, "Election deleted successfully.",
                                                    NoData))
    /\ UNCHANGED << admins, voters, candidates, votes, notifications,
                    nextElectionId, nextCandidateId, now, session >>

\* -------------------------------------------- GET /get_results/<election_id>
get_results_request(r) ==
    \E election_id \in ElectionIdInputs :
        Begin(r, [route |-> "get_results", election_id |-> election_id])

\* A tally is the dict of an election's "votes" field: its entries
\* << candidate_id, count >> in iteration order.
TallyKeys(tally) == {tally[i][1] : i \in 1..Len(tally)}
TallyGet(tally, candidate_id) ==
    (CHOOSE i \in 1..Len(tally) : tally[i][1] = candidate_id)

\* max(votes, key=votes.get): the first key, in iteration order, of the largest count
MaxKey(tally) ==
    LET i == CHOOSE k \in 1..Len(tally) :
                 /\ \A j \in 1..Len(tally) : tally[j][2] <= tally[k][2]
                 /\ \A j \in 1..(k - 1) : tally[j][2] < tally[k][2]
    IN  tally[i][1]

\* votes[candidate_id]
TallyCount(tally, candidate_id) == tally[TallyGet(tally, candidate_id)][2]

\* login_required, find_one({"_id": election_id}), max, candidates.find_one
get_results(r) ==
    /\ pc[r] = "get_results"
    /\ LET Match(e) == e._id = req[r].election_id
       IN  IF ~LoggedIn(r) THEN Return(r, RedirectToLogin)
           ELSE IF ~Found(elections, Match)
             THEN Return(r, format_response(FALSE, "Election not found.", NoData))
           ELSE LET tally == FindOne(elections, Match).votes
                IN  IF tally = << >>
                      THEN Return(r, format_response(FALSE, "No votes cast yet.", NoData))
                      ELSE LET winner_id == MaxKey(tally)
                               IsWinner(c) == c._id = winner_id
                           IN  IF ~Found(candidates, IsWinner)
                                 THEN \* winner is None: winner['name'] raises TypeError
                                      Return(r, Crash("TypeError"))
                                 ELSE Return(r, format_response(TRUE,
                                        "Results retrieved successfully.",
                                        [results |-> tally,
                                         winner |-> [candidate_id |-> winner_id,
                                                     name |-> FindOne(candidates, IsWinner).name,
                                                     votes |-> TallyCount(tally, winner_id)]]))
    /\ UNCHANGED << db, now, session >>

\* ------------------------------------------------ GET /available_elections
available_elections_request(r) ==
    Begin(r, [route |-> "available_elections"])

\* str(election["_id"])
str(id) == << "str", id >>

\* the query with $lt for $lte
Available_exclusive(election, current_time) ==
    election.start_date < current_time /\ election.end_date >= current_time

\* {"start_date": {"$lte": current_time}, "end_date": {"$gte": current_time}}
Available(election, current_time) ==
    election.start_date <= current_time /\ election.end_date >= current_time

\* login_required, datetime.now(), elections.find
available_elections(r) ==
    /\ pc[r] = "available_elections"
    /\ LET current_time == now
           Match(e) == Available(e, current_time)
           found == Find(elections, Match)
           election_list == [i \in 1..Len(found) |->
                                [election_id |-> str(found[i]._id), name |-> found[i].name]]
       IN  IF ~LoggedIn(r) THEN Return(r, RedirectToLogin)
           ELSE Return(r, format_response(TRUE,
                          "Available elections retrieved successfully.", election_list))
    /\ UNCHANGED << db, now, session >>


\* ------------------------------------------------ POST /send_notification
\* A message is the tuple of its parts; the empty string is the empty tuple.
Text(string) == IF string = "" THEN << >> ELSE << string >>

send_notification_request(r) ==
    /\ Len(notifications) + InFlight({"send_notification", "cast_vote"}) < MaxNotifications
    /\ \E recipient_id \in RecipientInputs, message \in MessageInputs :
        Begin(r, [route |-> "send_notification", recipient_id |-> recipient_id,
                  message |-> Text(message)])

\* send_notification without the admin_required decorator
send_notification_ungated(r) ==
    /\ pc[r] = "send_notification"
    /\ IF req[r].recipient_id = "" \/ req[r].message = << >>
         THEN /\ Return(r, format_response(FALSE,
                           "Recipient ID and message are required.", NoData))
              /\ UNCHANGED notifications
       ELSE /\ notifications' = Append(notifications,
                   [recipient_id |-> req[r].recipient_id, message |-> req[r].message,
                    timestamp |-> now])
            /\ Return(r, format_response(TRUE, "Notification sent successfully.", NoData))
    /\ UNCHANGED << admins, voters, candidates, elections, votes,
                    nextElectionId, nextCandidateId, now, session >>

\* admin_required, the presence check, notifications.insert_one
send_notification(r) ==
    /\ pc[r] = "send_notification"
    /\ IF ~IsAdmin(r)
         THEN Return(r, RedirectToLogin) /\ UNCHANGED notifications
       ELSE IF req[r].recipient_id = "" \/ req[r].message = << >>
         THEN /\ Return(r, format_response(FALSE,
                           "Recipient ID and message are required.", NoData))
              /\ UNCHANGED notifications
       ELSE /\ notifications' = Append(notifications,
                   [recipient_id |-> req[r].recipient_id, message |-> req[r].message,
                    timestamp |-> now])
            /\ Return(r, format_response(TRUE, "Notification sent successfully.", NoData))
    /\ UNCHANGED << admins, voters, candidates, elections, votes,
                    nextElectionId, nextCandidateId, now, session >>

\* --------------------------------------- GET /get_notifications/<recipient_id>
get_notifications_request(r) ==
    \E recipient_id \in RecipientInputs \ {""} :
        Begin(r, [route |-> "get_notifications", recipient_id |-> recipient_id])

\* login_required, notifications.find({"recipient_id": recipient_id})
get_notifications(r) ==
    /\ pc[r] = "get_notifications"
    /\ LET Match(n) == n.recipient_id = req[r].recipient_id
           found == Find(notifications, Match)
           notifications_list == [i \in 1..Len(found) |->
                                     [message |-> found[i].message,
                                      timestamp |-> found[i].timestamp]]
       IN  IF ~LoggedIn(r) THEN Return(r, RedirectToLogin)
           ELSE Return(r, format_response(TRUE, "Notifications retrieved successfully.",
                                          notifications_list))
    /\ UNCHANGED << db, now, session >>

\* -------------------------------------------------------- POST /cast_vote
cast_vote_request(r) ==
    /\ Len(votes) + InFlight({"cast_vote"}) < MaxVotes
    /\ Len(notifications) + InFlight({"send_notification", "cast_vote"}) < MaxNotifications
    /\ \E election_id \in ElectionIdInputs, candidate_id \in CandidateIdInputs :
        Begin(r, [route |-> "cast_vote", election_id |-> election_id,
                  candidate_id |-> candidate_id, voter_id |-> "", election |-> << >>])

\* {"_id": election_id}
IsElection(e, election_id) == e._id = election_id

\* {"voter_id": voter_id, "election_id": election_id}
IsVoteOf(v, voter_id, election_id) ==
    v.voter_id = voter_id /\ v.election_id = election_id

\* datetime.now() < election['start_date']
BeforeStart(t, election) == t < election.start_date

\* datetime.now() > election['end_date']
AfterEnd_inclusive(t, election) == t >= election.end_date
AfterEnd(t, election) == t > election.end_date

\* login_required; voter_id = session['user']['id'];
\* if not elections.find_one({"_id": election_id})
cast_vote(r) ==
    /\ pc[r] = "cast_vote"
    /\ LET Match(e) == IsElection(e, req[r].election_id)
       IN  IF ~LoggedIn(r) THEN Return(r, RedirectToLogin)
           ELSE IF ~Found(elections, Match)
             THEN Return(r, format_response(FALSE, "Election not found.", NoData))
           ELSE /\ req' = [req EXCEPT ![r].voter_id = session[r].user.id]
                /\ Goto(r, "cast_vote_find")
                /\ UNCHANGED resp
    /\ UNCHANGED << db, now, session >>

\* cast_vote_find with the time window never checked
cast_vote_find_unchecked(r) ==
    /\ pc[r] = "cast_vote_find"
    /\ LET Match(e) == IsElection(e, req[r].election_id)
       IN  IF ~Found(elections, Match)
             THEN Return(r, Crash("TypeError"))
             ELSE /\ req' = [req EXCEPT ![r].election = FindOne(elections, Match)]
                  /\ Goto(r, "cast_vote_voted")
                  /\ UNCHANGED resp
    /\ UNCHANGED << db, now, session >>

\* election = elections.find_one({"_id": election_id})
cast_vote_find(r) ==
    /\ pc[r] = "cast_vote_find"
    /\ LET Match(e) == IsElection(e, req[r].election_id)
       IN  IF ~Found(elections, Match)
             THEN \* election is None: election['start_date'] raises TypeError
                  Return(r, Crash("TypeError"))
             ELSE /\ req' = [req EXCEPT ![r].election = FindOne(elections, Match)]
                  /\ Goto(r, "cast_vote_start")
                  /\ UNCHANGED resp
    /\ UNCHANGED << db, now, session >>

\* if datetime.now() < election['start_date'] or ...
cast_vote_start(r) ==
    /\ pc[r] = "cast_vote_start"
    /\ IF BeforeStart(now, req[r].election)
         THEN Return(r, format_response(FALSE,
                        "Voting is not allowed for this election period.", NoData))
         ELSE Goto(r, "cast_vote_end") /\ UNCHANGED << req, resp >>
    /\ UNCHANGED << db, now, session >>

\* ... or datetime.now() > election['end_date']
cast_vote_end(r) ==
    /\ pc[r] = "cast_vote_end"
    /\ IF AfterEnd(now, req[r].election)
         THEN Return(r, format_response(FALSE,
                        "Voting is not allowed for this election period.", NoData))
         ELSE Goto(r, "cast_vote_voted") /\ UNCHANGED << req, resp >>
    /\ UNCHANGED << db, now, session >>

\* if votes.find_one({"voter_id": voter_id, "election_id": election_id})
cast_vote_voted(r) ==
    /\ pc[r] = "cast_vote_voted"
    /\ LET Match(v) == IsVoteOf(v, req[r].voter_id, req[r].election_id)
       IN  IF Found(votes, Match)
             THEN Return(r, format_response(FALSE,
                            "You have already voted in this election.", NoData))
             ELSE Goto(r, "cast_vote_insert") /\ UNCHANGED << req, resp >>
    /\ UNCHANGED << db, now, session >>

\* cast_vote_insert with the notification written before the vote
cast_vote_insert_notifies_first(r) ==
    /\ pc[r] = "cast_vote_insert"
    /\ notifications' = Append(notifications,
           [recipient_id |-> req[r].voter_id,
            message |-> << "Your vote in election ", << "str", req[r].election_id >>,
                           " has been successfully cast." >>,
            timestamp |-> now])
    /\ Goto(r, "cast_vote_notify")
    /\ UNCHANGED << admins, voters, candidates, elections, votes,
                    nextElectionId, nextCandidateId, now, session, req, resp >>

\* votes.insert_one
cast_vote_insert(r) ==
    /\ pc[r] = "cast_vote_insert"
    /\ votes' = Append(votes, [voter_id |-> req[r].voter_id,
                               election_id |-> req[r].election_id,
                               candidate_id |-> req[r].candidate_id])
    /\ Goto(r, "cast_vote_notify")
    /\ UNCHANGED << admins, voters, candidates, elections, notifications,
                    nextElectionId, nextCandidateId, now, session, req, resp >>

\* f"Your vote in election {election_id} has been successfully cast."
VoteMessage(election_id) ==
    << "Your vote in election ", str(election_id), " has been successfully cast." >>

\* notifications.insert_one, return
cast_vote_notify(r) ==
    /\ pc[r] = "cast_vote_notify"
    /\ notifications' = Append(notifications,
           [recipient_id |-> req[r].voter_id,
            message |-> VoteMessage(req[r].election_id),
            timestamp |-> now])
    /\ Return(r, format_response(TRUE, "Vote cast successfully.", NoData))
    /\ UNCHANGED << admins, voters, candidates, elections, votes,
                    nextElectionId, nextCandidateId, now, session >>

\* ------------------------------------------------------- the specification
Next ==
    \/ Tick
    \/ \E r \in Req :
        \/ create_admin_insert(r)
        \/ login_request(r) \/ login(r)
        \/ register_voter_request(r) \/ register_voter(r) \/ register_voter_insert(r)
        \/ add_candidate_request(r) \/ add_candidate(r) \/ add_candidate_insert(r)
        \/ create_election_request(r) \/ create_election(r)
        \/ delete_election_request(r) \/ delete_election(r)
        \/ get_results_request(r) \/ get_results(r)
        \/ available_elections_request(r) \/ available_elections(r)
        \/ send_notification_request(r) \/ send_notification(r)
        \/ get_notifications_request(r) \/ get_notifications(r)
        \/ cast_vote_request(r) \/ cast_vote(r) \/ cast_vote_find(r)
        \/ cast_vote_start(r) \/ cast_vote_end(r) \/ cast_vote_voted(r)
        \/ cast_vote_insert(r) \/ cast_vote_notify(r)

Spec == Init /\ [][Next]_vars

\* The clients of a workload send only some of the routes' requests.
\* Voting: elections are scheduled and deleted, votes cast, results read.
NextVoting ==
    \/ Tick
    \/ \E r \in Req :
        \/ create_admin_insert(r)
        \/ login_request(r) \/ login(r)
        \/ create_election_request(r) \/ create_election(r)
        \/ delete_election_request(r) \/ delete_election(r)
        \/ get_results_request(r) \/ get_results(r)
        \/ cast_vote_request(r) \/ cast_vote(r) \/ cast_vote_find(r)
        \/ cast_vote_start(r) \/ cast_vote_end(r) \/ cast_vote_voted(r)
        \/ cast_vote_insert(r) \/ cast_vote_notify(r)

SpecVoting == Init /\ [][NextVoting]_vars

\* Registry: voters and candidates are registered.
NextRegistry ==
    \/ \E r \in Req :
        \/ create_admin_insert(r)
        \/ login_request(r) \/ login(r)
        \/ register_voter_request(r) \/ register_voter(r) \/ register_voter_insert(r)
        \/ add_candidate_request(r) \/ add_candidate(r) \/ add_candidate_insert(r)

SpecRegistry == Init /\ [][NextRegistry]_vars

\* Scheduling: elections with different windows are scheduled, listed and
\* deleted.
SchedulingInputs == { << IsoDate(1), IsoDate(2) >>, << IsoDate(2), IsoDate(3) >>,
                      << IsoDate(2), IsoDate(1) >> }

scheduling_create_request(r) ==
    /\ nextElectionId + InFlight({"create_election"}) <= MaxScheduled
    /\ \E name \in NameInputs, schedule \in SchedulingInputs :
        Begin(r, [route |-> "create_election", name |-> name,
                  start_date |-> schedule[1], end_date |-> schedule[2]])

scheduling_delete_request(r) ==
    \E election_id \in 1..MaxScheduled :
        Begin(r, [route |-> "delete_election", election_id |-> election_id])

NextScheduling ==
    \/ Tick
    \/ \E r \in Req :
        \/ create_admin_insert(r)
        \/ login_request(r) \/ login(r)
        \/ scheduling_create_request(r) \/ create_election(r)
        \/ scheduling_delete_request(r) \/ delete_election(r)
        \/ available_elections_request(r) \/ available_elections(r)

SpecScheduling == Init /\ [][NextScheduling]_vars

\* ================================================================ claims
\* the responses of the routes, by their message
Said(response, message) == response.kind = "json" /\ response.message = message
ElectionNotFound(response) == Said(response, "Election not found.")
VotingClosed(response) == Said(response, "Voting is not allowed for this election period.")
AlreadyVoted(response) == Said(response, "You have already voted in this election.")
VoteCast(response) == Said(response, "Vote cast successfully.")
NoVotesCast(response) == Said(response, "No votes cast yet.")
ResultsRetrieved(response) == Said(response, "Results retrieved successfully.")

\* slot r takes a step from label; it ends its request with this step
Steps(r, label) == pc[r] = label /\ pc'[r] # label
Ends(r, label) == pc[r] = label /\ pc'[r] = "idle"
Enters(r, label) == pc[r] # label /\ pc'[r] = label

\* the Vote records of an election, and those of one voter in it
VotesIn(election_id) == {i \in 1..Len(votes) : votes[i].election_id = election_id}
VotesOf(voter_id, election_id) ==
    {i \in VotesIn(election_id) : votes[i].voter_id = voter_id}

\* the elections of the registry with this _id
ElectionsWith(election_id) ==
    {i \in 1..Len(elections) : elections[i]._id = election_id}

\* the count a tally holds for a candidate (0 when it has no entry), its sum
\* and its largest count
CountIn(tally, candidate_id) ==
    IF candidate_id \in TallyKeys(tally) THEN TallyCount(tally, candidate_id) ELSE 0
RECURSIVE SumCounts(_)
SumCounts(tally) ==
    IF tally = << >> THEN 0 ELSE Head(tally)[2] + SumCounts(Tail(tally))
IsMaxCount(tally, n) ==
    /\ \E i \in 1..Len(tally) : tally[i][2] = n
    /\ \A i \in 1..Len(tally) : tally[i][2] <= n

\* C1: for every voter v and election e at most one Vote record (v, e)
\* exists, however the cast_vote requests for the pair interleave.
C1_OneVotePerVoterAndElection ==
    \A i, j \in 1..Len(votes) :
        (votes[i].voter_id = votes[j].voter_id
            /\ votes[i].election_id = votes[j].election_id) => i = j

\* C2: conservation: for every election, the counts of its tally add up to
\* the number of Vote records of the election.
C2_TallyConservation ==
    \A i \in 1..Len(elections) :
        SumCounts(elections[i].votes) = Cardinality(VotesIn(elections[i]._id))

\* C3: the commit of cast_vote inserts exactly one Vote record (v, e, c) and
\* raises tally[c] of election e by exactly 1, every other entry unchanged.
C3_CommitIsAtomic ==
    [][\A r \in Req : Steps(r, "cast_vote_insert") =>
          /\ votes' = Append(votes, [voter_id |-> req[r].voter_id,
                                     election_id |-> req[r].election_id,
                                     candidate_id |-> req[r].candidate_id])
          /\ Len(elections') = Len(elections)
          /\ \A i \in ElectionsWith(req[r].election_id) :
                /\ CountIn(elections'[i].votes, req[r].candidate_id)
                     = CountIn(elections[i].votes, req[r].candidate_id) + 1
                /\ \A c \in TallyKeys(elections[i].votes) \ {req[r].candidate_id} :
                     CountIn(elections'[i].votes, c) = CountIn(elections[i].votes, c)
      ]_vars


\* the window of the election document that cast_vote holds in `election`
InWindow(t, election) == election.start_date <= t /\ t <= election.end_date

\* C4: cast_vote checks the election's existence, then the time window, then
\* the duplicate vote, and answers with the first check that fails: a
\* missing election is "not found"; an existing one outside its window is
\* "closed" whether or not the voter has voted; "already voted" is answered
\* only once the election was found and the clock was in its window.
C4_ChecksInOrder ==
    [][\A r \in Req :
          LET election_id == req[r].election_id
              exists == ElectionsWith(election_id) # {}
              voted == VotesOf(req[r].voter_id, election_id) # {}
          IN  \* 1. existence, the first check of a logged-in request
              /\ (Steps(r, "cast_vote") /\ LoggedIn(r)) =>
                    IF exists THEN pc'[r] = "cast_vote_find"
                    ELSE Ends(r, "cast_vote") /\ ElectionNotFound(resp'[r])
              \* 2. the window, checked for a found election only, whatever
              \*    the votes collection holds
              /\ Enters(r, "cast_vote_start") => pc[r] = "cast_vote_find" /\ exists
              /\ Steps(r, "cast_vote_start") =>
                    IF req[r].election.start_date <= now
                      THEN pc'[r] = "cast_vote_end"
                      ELSE Ends(r, "cast_vote_start") /\ VotingClosed(resp'[r])
              /\ Enters(r, "cast_vote_end") => pc[r] = "cast_vote_start"
              /\ Steps(r, "cast_vote_end") =>
                    IF now <= req[r].election.end_date
                      THEN pc'[r] = "cast_vote_voted"
                      ELSE Ends(r, "cast_vote_end") /\ VotingClosed(resp'[r])
              \* 3. the duplicate vote, checked last
              /\ Enters(r, "cast_vote_voted") =>
                    pc[r] = "cast_vote_end" /\ InWindow(now, req[r].election)
              /\ Steps(r, "cast_vote_voted") =>
                    IF voted
                      THEN Ends(r, "cast_vote_voted") /\ AlreadyVoted(resp'[r])
                      ELSE pc'[r] = "cast_vote_insert"
              \* each failure is answered by its own check alone
              /\ (pc[r] # "idle" /\ req[r].route = "cast_vote" /\ pc'[r] = "idle") =>
                    /\ ElectionNotFound(resp'[r]) => pc[r] = "cast_vote"
                    /\ VotingClosed(resp'[r]) => pc[r] \in {"cast_vote_start", "cast_vote_end"}
                    /\ AlreadyVoted(resp'[r]) => pc[r] = "cast_vote_voted"
      ]_vars

\* C4, reached: a voter who has a Vote record is answered "closed" after the
\* election's end, and another request was answered "already voted".
C4_Witness ==
    /\ \E r \in Req :
          /\ VotingClosed(resp[r])
          /\ LoggedIn(r)
          /\ \E i \in 1..Len(votes) : votes[i].voter_id = session[r].user.id
          /\ \A i \in 1..Len(elections) : now > elections[i].end_date
    /\ \E r \in Req : AlreadyVoted(resp[r])

\* C5: for an existing election, a cast_vote whose clock read is before
\* start_date or after end_date answers "closed" and records no vote,
\* whatever the rest of the state; at start_date and at end_date the check
\* passes.
C5_WindowIsInclusive ==
    [][\A r \in Req :
          /\ Steps(r, "cast_vote_start") =>
                IF now < req[r].election.start_date
                  THEN /\ Ends(r, "cast_vote_start") /\ VotingClosed(resp'[r])
                       /\ votes' = votes
                  ELSE pc'[r] = "cast_vote_end"
          /\ Steps(r, "cast_vote_end") =>
                IF now > req[r].election.end_date
                  THEN /\ Ends(r, "cast_vote_end") /\ VotingClosed(resp'[r])
                       /\ votes' = votes
                  ELSE pc'[r] = "cast_vote_voted"
      ]_vars

\* C5, reached: one request is answered "closed" before the election starts
\* while another has passed both bounds at now = start_date.
C5_Witness ==
    \E r \in Req :
        /\ pc[r] = "cast_vote_voted"
        /\ now = req[r].election.start_date
        /\ \E q \in Req : VotingClosed(resp[q])

\* C6: on an open election E, once voter V's vote for A is the only Vote
\* record of E: the cast that found no vote of V went on to commit, a later
\* cast of V in E is answered "already voted", and get_results(E) succeeds
\* with winner A and count 1.
C6_VoteThenResults ==
    [][\A r \in Req :
          /\ Steps(r, "cast_vote_voted") =>
                IF VotesOf(req[r].voter_id, req[r].election_id) = {}
                  THEN pc'[r] = "cast_vote_insert"
                  ELSE AlreadyVoted(resp'[r])
          /\ (Steps(r, "get_results") /\ LoggedIn(r)
                /\ ElectionsWith(req[r].election_id) # {}
                /\ Cardinality(VotesIn(req[r].election_id)) = 1) =>
                LET vote == votes[CHOOSE i \in VotesIn(req[r].election_id) : TRUE]
                IN  /\ ResultsRetrieved(resp'[r])
                    /\ resp'[r].data.winner.candidate_id = vote.candidate_id
                    /\ resp'[r].data.winner.votes = 1
      ]_vars

\* C7: get_results answers "not found" for a missing election, "no votes"
\* for an election without Vote records, and otherwise the election's tally
\* with a winner whose count is the largest of the tally.
C7_Results ==
    [][\A r \in Req : (Steps(r, "get_results") /\ LoggedIn(r)) =>
          LET found == ElectionsWith(req[r].election_id)
          IN  IF found = {} THEN ElectionNotFound(resp'[r])
              ELSE IF VotesIn(req[r].election_id) = {} THEN NoVotesCast(resp'[r])
              ELSE /\ ResultsRetrieved(resp'[r])
                   /\ \E i \in found :
                        /\ resp'[r].data.results = elections[i].votes
                        /\ IsMaxCount(elections[i].votes, resp'[r].data.winner.votes)
      ]_vars


InvalidScheduleSaid(response) == Said(response, "Invalid election schedule.")
ElectionCreated(response) == Said(response, "Election created successfully.")

\* C8: create_election with start >= end answers "invalid schedule" and
\* adds no election; with start < end it succeeds and adds an election with
\* an empty tally; so every election of the registry has start < end.
C8_ScheduleIsValid ==
    /\ [](\A i \in 1..Len(elections) : elections[i].start_date < elections[i].end_date)
    /\ [][\A r \in Req :
            (Steps(r, "create_election") /\ IsAdmin(r)
                /\ req[r].start_date.iso /\ req[r].end_date.iso) =>
            LET start == req[r].start_date.t
                end == req[r].end_date.t
            IN  IF start < end
                  THEN /\ ElectionCreated(resp'[r])
                       /\ Len(elections') = Len(elections) + 1
                       /\ SubSeq(elections', 1, Len(elections)) = elections
                       /\ elections'[Len(elections')].start_date = start
                       /\ elections'[Len(elections')].end_date = end
                       /\ elections'[Len(elections')].votes = << >>
                  ELSE /\ InvalidScheduleSaid(resp'[r])
                       /\ elections' = elections
        ]_vars

\* C8, reached: an election with an empty tally is in the registry and a
\* request with start >= end was answered "invalid schedule".
C8_Witness ==
    /\ \E i \in 1..Len(elections) : elections[i].votes = << >>
    /\ \E r \in Req : InvalidScheduleSaid(resp[r])

\* C9: no two Candidate records share both name and party, however the
\* add_candidate requests interleave.
C9_UniqueCandidates ==
    \A i, j \in 1..Len(candidates) :
        (candidates[i].name = candidates[j].name
            /\ candidates[i].party = candidates[j].party) => i = j

UnderageSaid(response) == Said(response, "Voter must be at least 18 years old.")
DuplicateCnic(response) == Said(response, "Voter already registered.")
VoterRegistered(response) == Said(response, "Voter registered successfully.")
Registered(cnic) == \E i \in 1..Len(voters) : voters[i].cnic = cnic

\* the voter document of the request of slot r
VoterOf(r) ==
    [name |-> req[r].name, cnic |-> req[r].cnic, dob |-> req[r].dob,
     age |-> req[r].age, voted |-> FALSE]

\* C10, as claimed: register_voter with age < 18 answers "underage" and
\* leaves the registry unchanged; with age >= 18 and an unused credential
\* it succeeds and adds exactly one voter.
C10_UnderageAlwaysSaid ==
    [][\A r \in Req :
          /\ (Steps(r, "register_voter") /\ IsAdmin(r) /\ req[r].age.given) =>
                /\ req[r].age.n < 18 => UnderageSaid(resp'[r]) /\ voters' = voters
                /\ (req[r].age.n >= 18 /\ ~Registered(req[r].cnic)) =>
                      pc'[r] = "register_voter_insert"
          /\ Steps(r, "register_voter_insert") =>
                VoterRegistered(resp'[r]) /\ voters' = Append(voters, VoterOf(r))
      ]_vars

\* C10, amended: register_voter with age < 18 leaves the registry unchanged,
\* answering "underage" when the credential is unused and "already
\* registered" when it is registered; with age >= 18 and an unused
\* credential it succeeds and adds exactly one voter.
C10_UnderageUnlessRegistered ==
    [][\A r \in Req :
          /\ (Steps(r, "register_voter") /\ IsAdmin(r) /\ req[r].age.given) =>
                /\ req[r].age.n < 18 =>
                      /\ voters' = voters
                      /\ IF Registered(req[r].cnic) THEN DuplicateCnic(resp'[r])
                                                    ELSE UnderageSaid(resp'[r])
                /\ (req[r].age.n >= 18 /\ ~Registered(req[r].cnic)) =>
                      pc'[r] = "register_voter_insert" /\ voters' = voters
          /\ Steps(r, "register_voter_insert") =>
                VoterRegistered(resp'[r]) /\ voters' = Append(voters, VoterOf(r))
      ]_vars

\* C10, reached: one request was answered "underage", another registered a
\* voter aged 18.
C10_Witness ==
    /\ \E r \in Req : UnderageSaid(resp[r])
    /\ \E r \in Req : VoterRegistered(resp[r])
    /\ \E i \in 1..Len(voters) : voters[i].age.n = 18


\* a reported failure that is neither "not found" nor "no votes"
WinnerCandidateMissing(response) ==
    /\ response.kind = "json" /\ ~response.success
    /\ ~ElectionNotFound(response) /\ ~NoVotesCast(response)

\* the candidates with the most Vote records of an election
Leading(election_id) ==
    {c \in {votes[i].candidate_id : i \in VotesIn(election_id)} :
        \A d \in {votes[i].candidate_id : i \in VotesIn(election_id)} :
            Cardinality({i \in VotesIn(election_id) : votes[i].candidate_id = d})
              <= Cardinality({i \in VotesIn(election_id) : votes[i].candidate_id = c})}

\* C11: when the candidate with the most votes of an election has no
\* Candidate record, get_results answers with a reported error of its own
\* (winner candidate missing): it neither raises nor names a winner nor
\* answers as for another failure, and the slot is free for the next request.
C11_WinnerMissingIsReported ==
    [][\A r \in Req :
          (Steps(r, "get_results") /\ LoggedIn(r)
              /\ ElectionsWith(req[r].election_id) # {}
              /\ VotesIn(req[r].election_id) # {}
              /\ \A c \in Leading(req[r].election_id) :
                    \A i \in 1..Len(candidates) : candidates[i]._id # c) =>
          WinnerCandidateMissing(resp'[r]) /\ pc'[r] = "idle"
      ]_vars


ElectionDeleted(response) == Said(response, "Election deleted successfully.")

\* C12: Vote records are append-only: no step of any handler changes or
\* removes a Vote record, so the votes collection only grows.
C12_VotesAppendOnly ==
    [][/\ Len(votes') >= Len(votes)
       /\ SubSeq(votes', 1, Len(votes)) = votes]_vars

\* C12, reached: a Vote record is still there after its election was
\* deleted.
C12_Witness ==
    /\ \E r \in Req : ElectionDeleted(resp[r])
    /\ \E i \in 1..Len(votes) : ElectionsWith(votes[i].election_id) = {}


\* the notification that confirms a vote in an election
ConfirmsVote(notification, election_id) ==
    notification.message =
        << "Your vote in election ", << "str", election_id >>,
           " has been successfully cast." >>

\* C15: a cast_vote answered "not found", "closed" or "already voted" leaves
\* the votes, every election's tally and the notifications unchanged; and a
\* notification that confirms a vote of a voter in an election exists only
\* when the Vote record of that pair was inserted before it.
C15_FailedCastChangesNothing ==
    /\ [][\A r \in Req :
            \* the failures are answered by the checks, and no step of a
            \* check writes
            /\ (pc[r] # "idle" /\ req[r].route = "cast_vote" /\ pc'[r] = "idle"
                  /\ (ElectionNotFound(resp'[r]) \/ VotingClosed(resp'[r])
                        \/ AlreadyVoted(resp'[r]))) =>
                  pc[r] \in {"cast_vote", "cast_vote_start", "cast_vote_end",
                             "cast_vote_voted"}
            /\ (\E label \in {"cast_vote", "cast_vote_find", "cast_vote_start",
                               "cast_vote_end", "cast_vote_voted"} : Steps(r, label)) =>
                  /\ votes' = votes
                  /\ notifications' = notifications
                  /\ elections' = elections
        ]_vars
    /\ [](\A k \in 1..Len(notifications) : \A e \in ElectionIdInputs :
            ConfirmsVote(notifications[k], e) =>
                VotesOf(notifications[k].recipient_id, e) # {})

\* C15, reached: a vote was confirmed by a notification and a later request
\* of the same voter was answered "already voted".
C15_Witness ==
    /\ \E k \in 1..Len(notifications) : \E e \in ElectionIdInputs :
          ConfirmsVote(notifications[k], e)
    /\ \E r \in Req : AlreadyVoted(resp[r])
    /\ Len(votes) = 1 /\ Len(notifications) = 1

\* C18: a cast_vote of a logged-in user always ends with a reported outcome
\* (success, "not found", "closed", "already voted"), also when the election
\* is deleted while the request is served.
C18_CastVoteAlwaysReports ==
    [][\A r \in Req :
          (pc[r] # "idle" /\ req[r].route = "cast_vote" /\ pc'[r] = "idle"
              /\ LoggedIn(r)) =>
          \/ VoteCast(resp'[r])
          \/ ElectionNotFound(resp'[r])
          \/ VotingClosed(resp'[r])
          \/ AlreadyVoted(resp'[r])
      ]_vars


\* C16: the seed of the bootstrap admin is idempotent: once a request has
\* been served there is exactly one admin record with cnic "admin_cnic",
\* also when the first requests are served concurrently.
C16_OneBootstrapAdmin ==
    /\ Cardinality({i \in 1..Len(admins) : admins[i].cnic = "admin_cnic"}) <= 1
    /\ (\E r \in Req : resp[r] # [kind |-> "none"]) =>
          Cardinality({i \in 1..Len(admins) : admins[i].cnic = "admin_cnic"}) = 1

\* C17: no two voter records share a cnic, however the register_voter
\* requests interleave.
C17_UniqueCnic ==
    \A i, j \in 1..Len(voters) : voters[i].cnic = voters[j].cnic => i = j

\* C19: once register_voter has stored a voter with (cnic, dob), a login
\* with that pair succeeds with role voter and puts the voter's id in the
\* session, the id cast_vote uses as voter_id; a pair that matches no voter
\* and no admin is answered "invalid credentials".
C19_RegisteredVoterLogsIn ==
    [][\A r \in Req : Steps(r, "login") =>
          LET IsUser(u) == u.cnic = req[r].cnic /\ u.dob = req[r].dob
          IN  IF \E i \in 1..Len(voters) : IsUser(voters[i])
                THEN /\ Said(resp'[r], "Login successful")
                     /\ resp'[r].data.role = "voter"
                     /\ "user" \in DOMAIN session'[r]
                     /\ session'[r].user.role = "voter"
                ELSE (\A i \in 1..Len(admins) : ~IsUser(admins[i])) =>
                        Said(resp'[r], "Invalid credentials") /\ session' = session
      ]_vars


\* Gating: every route behind admin_required or login_required is requested,
\* by a client that logs in and by one that never does.
Anonymous == CHOOSE r \in Req : TRUE

gating_register_voter_request(r) ==
    /\ Len(voters) + InFlight({"register_voter"}) < MaxVoters
    /\ Begin(r, [route |-> "register_voter", name |-> "X", cnic |-> "c1",
                 dob |-> "d1", age |-> Age(MinAge)])

gating_add_candidate_request(r) ==
    /\ Len(candidates) + InFlight({"add_candidate"}) < MaxCandidates
    /\ Begin(r, [route |-> "add_candidate", name |-> "X", party |-> "Y"])

\* an election that is open from the first instant
gating_create_election_request(r) ==
    /\ nextElectionId + InFlight({"create_election"}) <= MaxElections
    /\ Begin(r, [route |-> "create_election", name |-> "X",
                 start_date |-> IsoDate(0), end_date |-> IsoDate(1)])

gating_send_notification_request(r) ==
    /\ Len(notifications) + InFlight({"send_notification", "cast_vote"}) < MaxNotifications
    /\ Begin(r, [route |-> "send_notification", recipient_id |-> "admin",
                 message |-> Text("m")])

NextGating ==
    \/ \E r \in Req \ {Anonymous} : login_request(r) \/ login(r)
    \/ \E r \in Req :
        \/ create_admin_insert(r)
        \/ gating_register_voter_request(r) \/ register_voter(r) \/ register_voter_insert(r)
        \/ gating_add_candidate_request(r) \/ add_candidate(r) \/ add_candidate_insert(r)
        \/ gating_create_election_request(r) \/ create_election(r)
        \/ delete_election_request(r) \/ delete_election(r)
        \/ gating_send_notification_request(r) \/ send_notification(r)
        \/ cast_vote_request(r) \/ cast_vote(r) \/ cast_vote_find(r)
        \/ cast_vote_start(r) \/ cast_vote_end(r) \/ cast_vote_voted(r)
        \/ cast_vote_insert(r) \/ cast_vote_notify(r)

SpecGating == Init /\ [][NextGating]_vars

\* the elections of the registry without those of an _id
Without(election_id) ==
    LET Other(e) == e._id # election_id IN SelectSeq(elections, Other)

\* C13: delete_election removes exactly the election of the given id and
\* answers success when it exists; when none has the id it answers "not
\* found" and leaves the registry unchanged; the other elections are
\* unchanged in both cases.
C13_DeleteRemovesExactlyOne ==
    [][\A r \in Req : (Steps(r, "delete_election") /\ IsAdmin(r)) =>
          /\ elections' = Without(req[r].election_id)
          /\ IF ElectionsWith(req[r].election_id) # {}
               THEN /\ ElectionDeleted(resp'[r])
                    /\ Len(elections') = Len(elections) - 1
               ELSE /\ ElectionNotFound(resp'[r])
                    /\ elections' = elections
      ]_vars

\* C13, reached: of two elections one was deleted and the other is still in
\* the registry, and a delete of a missing id was answered "not found".
C13_Witness ==
    /\ nextElectionId = 3 /\ Len(elections) = 1
    /\ \E r \in Req : ElectionDeleted(resp[r])
    /\ \E r \in Req : ElectionNotFound(resp[r])

AvailableRetrieved(response) ==
    Said(response, "Available elections retrieved successfully.")

\* C14: available_elections lists exactly the elections with
\* start_date <= now <= end_date, and these are exactly the elections for
\* which the window check of cast_vote passes at the same now.
C14_ListsOpenElections ==
    [][\A r \in Req : (Steps(r, "available_elections") /\ LoggedIn(r)) =>
          LET open == {i \in 1..Len(elections) :
                          elections[i].start_date <= now /\ now <= elections[i].end_date}
              passes == {i \in 1..Len(elections) :
                          ~BeforeStart(now, elections[i]) /\ ~AfterEnd(now, elections[i])}
          IN  /\ AvailableRetrieved(resp'[r])
              /\ Len(resp'[r].data) = Cardinality(open)
              /\ {resp'[r].data[k].election_id : k \in 1..Len(resp'[r].data)}
                   = {<< "str", elections[i]._id >> : i \in open}
              /\ open = passes
      ]_vars

\* C14, reached: at now = start_date of one election and before the start
\* of another, the list holds the first alone.
C14_Witness ==
    \E r \in Req : \E i, j \in 1..Len(elections) :
        /\ AvailableRetrieved(resp[r])
        /\ elections[i].start_date = now
        /\ elections[j].start_date > now
        /\ Len(resp[r].data) = 1
        /\ resp[r].data[1].election_id = << "str", elections[i]._id >>


\* the routes behind admin_required that write, and the request a step serves
AdminRoutes == {"register_voter", "add_candidate", "create_election",
                "delete_election", "send_notification"}
Acts(r) == pc'[r] # pc[r]
RouteOf(r) == IF pc[r] = "idle" THEN req'[r].route ELSE req[r].route
Unauthorized(r) ==
    \/ RouteOf(r) \in AdminRoutes /\ ~IsAdmin(r)
    \/ RouteOf(r) = "cast_vote" /\ ~LoggedIn(r)
Redirected(r) ==
    /\ pc[r] = RouteOf(r) => pc'[r] = "idle"
    /\ pc'[r] = "idle" => resp'[r] = RedirectToLogin

\* C20, as claimed: a request to register_voter, add_candidate,
\* create_election, delete_election or send_notification without an admin
\* session, or to cast_vote without a session, is redirected and none of its
\* steps changes any collection.
C20_UnauthorizedChangesNothing ==
    [][\A r \in Req : (Acts(r) /\ Unauthorized(r)) =>
          /\ Redirected(r)
          /\ UNCHANGED << admins, voters, candidates, elections, votes, notifications >>
      ]_vars

\* C20, amended: such a request is redirected and changes no collection,
\* except that its before_request hook may insert the bootstrap admin; so
\* voters, candidates, elections, votes and notifications change only in
\* steps of requests that hold the required session.
C20_UnauthorizedOnlySeedsAdmin ==
    [][\A r \in Req : (Acts(r) /\ Unauthorized(r)) =>
          /\ Redirected(r)
          /\ UNCHANGED << voters, candidates, elections, votes, notifications >>
          /\ \/ admins' = admins
             \/ pc[r] = "create_admin_insert" /\ admins' = Append(admins, BootstrapAdmin)
      ]_vars

\* C20, reached: the only request served so far came without a session; it
\* was redirected, and the bootstrap admin is what it left behind.
C20_Witness ==
    \E r \in Req :
        /\ ~LoggedIn(r)
        /\ resp[r] = RedirectToLogin
        /\ admins = << BootstrapAdmin >>
        /\ \A q \in Req \ {r} : pc[q] = "idle" /\ resp[q] = NoResponse

====
